---- MODULE Spec2Model ----
(***************************************************************************)
(* The tap CNI plugin (plugins/main/tap/tap.go) and its attachment record  *)
(* (pkg/dan/dan.go): the ADD / DEL / CHECK verbs as step machines over the *)
(* host's links, the IPAM delegate's leases and the record file.           *)
(*                                                                         *)
(* Every call to a collaborator (netlink, ipam, ip, types, dan) is one     *)
(* step; whether the collaborator fails is chosen by the environment.      *)
(* Go's deferred functions are kept as a stack and run last-in first-out   *)
(* after the return value has been fixed: cmdAdd's result is unnamed, so a *)
(* deferred function reads the local variable err, not the returned value. *)
(***************************************************************************)
EXTENDS Integers, Sequences, FiniteSets, TLC

\* ------------------------------------------------------------------ bounds
\* Number of verb invocations the runtime makes in one behaviour.
MaxInvocations == 3
\* Longest list of IP configurations the allocator returns.
MaxIPs == 2

\* --------------------------------------------------------------- constants
hostTapName == "tap0"
\* line 142: fmt.Sprintf("/tmp/dans/tap/%s.json", hostTapName)
metaFile == "/tmp/dans/tap/" \o hostTapName \o ".json"
DirectAttachableNetworkTypeTap == "tap"
\* permissions dan.Save asks for (octal 0755 and 0644)
DirMode == 493
FileMode == 420

Nil == "nil"
SandboxIfName == "eth0"

\* ------------------------------------------------------------- host links
LinkNames == {"br0", hostTapName}
NoAddr == [ip |-> 0, len |-> 0]
NoLink == [kind |-> "none", index |-> 0, addr |-> NoAddr, master |-> 0,
           up |-> FALSE, hwaddr |-> 0]

\* The kernel's link of a freshly created device: a new index, a hardware
\* address of the kernel's choosing, no address, no master, down.
NewLink(kind, idx) ==
    [kind |-> kind, index |-> idx, addr |-> NoAddr, master |-> 0,
     up |-> FALSE, hwaddr |-> 1000 + idx]

\* The name of the link carrying kernel index idx ("" when there is none).
NameOfIndex(ls, idx) ==
    IF \E n \in LinkNames : ls[n] # NoLink /\ ls[n].index = idx
    THEN CHOOSE n \in LinkNames : ls[n] # NoLink /\ ls[n].index = idx
    ELSE ""

\* ---------------------------------------------------------- configuration
\* A bridge address as written in the configuration: dotted quad as a
\* 32-bit number plus prefix length, or text that is no CIDR.
CIDRText(ip, len) == [valid |-> TRUE, ip |-> ip, len |-> len]
BadCIDRText == [valid |-> FALSE, ip |-> 0, len |-> 0]
\* 10.0.0.1/24
ConfiguredCIDR == CIDRText(167772161, 24)
\* 10.9.0.1/24, the address of a bridge the host already has
ForeignAddr == [ip |-> 168361985, len |-> 24]

NoConf == [Bridge |-> "", BridgeIP |-> BadCIDRText, IPAMType |-> "",
           CNIVersion |-> ""]

\* The configuration blobs the runtime hands over on stdin.
Config(bridge, bridgeIP, ipamType) ==
    [json |-> TRUE, Bridge |-> bridge, BridgeIP |-> bridgeIP, IPAMType |-> ipamType]
BadJSON == [json |-> FALSE, Bridge |-> "", BridgeIP |-> BadCIDRText, IPAMType |-> ""]
StdinData ==
    {Config("br0", ConfiguredCIDR, "static"),
     Config("br0", BadCIDRText, "static"),
     Config("br0", ConfiguredCIDR, ""),
     Config(hostTapName, ConfiguredCIDR, "static"),
     BadJSON}

parseNetConf(bytes) ==
    IF bytes.json
    THEN [err |-> Nil,
          conf |-> [Bridge |-> bytes.Bridge, BridgeIP |-> bytes.BridgeIP,
                    IPAMType |-> bytes.IPAMType, CNIVersion |-> "1.0.0"]]
    ELSE [err |-> "failed to parse network config", conf |-> NoConf]

\* The check of the IPAM type left out.
MissingIPAM_unchecked(conf) == FALSE

\* line 130: ADD refuses a configuration without an IPAM type.
MissingIPAM(conf) == conf.IPAMType = ""

\* net.ParseCIDR: the address and the network it lies in (the address with
\* its host bits cleared).
ParseCIDR(s) ==
    IF s.valid
    THEN [err |-> Nil, ip |-> s.ip,
          ipnet |-> [ip |-> s.ip - (s.ip % (2 ^ (32 - s.len))), len |-> s.len]]
    ELSE [err |-> "invalid CIDR address", ip |-> 0, ipnet |-> NoAddr]

\* ------------------------------------------------------- allocator results
IfaceIdx == {-1, 1}
IPAddrOf(i) == 100 + i
\* What ipam.ExecAdd may return on success: up to MaxIPs IP configurations,
\* each naming an interface index of the allocator's choosing (-1: none).
AllocResults ==
    UNION {[1..n -> IfaceIdx] : n \in 0..MaxIPs}

IPConfigs(choice) ==
    [i \in 1..Len(choice) |-> [Address |-> IPAddrOf(i), Interface |-> choice[i]]]

NoInterface == [Name |-> "", Mac |-> 0]
EmptyResult == [nil |-> FALSE, Interfaces |-> <<>>, IPs |-> <<>>, Routes |-> <<>>,
                DNS |-> "", Annotations |-> {}]
NilResult == [nil |-> TRUE, Interfaces |-> <<>>, IPs |-> <<>>, Routes |-> <<>>,
              DNS |-> "", Annotations |-> {}]
\* The allocator's answer, in the allocator's result version.
IPAMResult(choice) ==
    [nil |-> FALSE, Interfaces |-> <<>>, IPs |-> IPConfigs(choice),
     Routes |-> <<"0.0.0.0/0">>, DNS |-> "10.0.0.53", Annotations |-> {}]

\* ------------------------------------------------------------------ state
VARIABLES
    links,      \* the host's links by name
    nextIndex,  \* the kernel's next interface index
    leases,     \* ids of the invocations whose allocation the allocator holds
    fs,         \* the record file and its directory
    inv,        \* the running (or last finished) invocation of each process
    last,       \* the invocation that finished before it
    nInv        \* invocations started so far

vars == <<links, nextIndex, leases, fs, inv, last, nInv>>

\* The plugin processes the runtime may start; one at a time when the
\* orchestrator serialises the invocations on a host.
Procs == {1, 2}
SerialProcs == {1}

\* dan.DirectAttachableNetwork, the attachment record
NoRecord ==
    [NetworkType |-> "", DeviceName |-> "", ContainerInterfaceName |-> "",
     Interfaces |-> <<>>, IPs |-> <<>>, Routes |-> <<>>, DNS |-> "",
     Annotations |-> {}]

\* The annotations not copied into the record.
FromResult_noAnnotations(networkType, device, containerInfName, r) ==
    [NetworkType |-> networkType, DeviceName |-> device,
     ContainerInterfaceName |-> containerInfName,
     Interfaces |-> r.Interfaces, IPs |-> r.IPs, Routes |-> r.Routes,
     DNS |-> r.DNS, Annotations |-> {}]

FromResult(networkType, device, containerInfName, r) ==
    [NetworkType |-> networkType, DeviceName |-> device,
     ContainerInterfaceName |-> containerInfName,
     Interfaces |-> r.Interfaces, IPs |-> r.IPs, Routes |-> r.Routes,
     DNS |-> r.DNS, Annotations |-> r.Annotations]

\* The file-creation masks a plugin process may run under (octal 0, 022,
\* 077).
Umasks == {0, 18, 63}

\* No record file yet; path is where the file lies once written, umask the
\* file-creation mask of the plugin's process (022 unless said otherwise).
NoFile == [dirExists |-> FALSE, dirMode |-> 0, fileExists |-> FALSE,
           fileMode |-> 0, path |-> "", body |-> NoRecord, umask |-> 18]

\* The permission bits of a and not of b.
RECURSIVE AndNot(_, _)
AndNot(a, b) ==
    IF a = 0 THEN 0
    ELSE (IF a % 2 = 1 /\ b % 2 = 0 THEN 1 ELSE 0) + 2 * AndNot(a \div 2, b \div 2)

IdleInv ==
    [pc |-> "idle", id |-> 0, verb |-> "none",
     stdin |-> BadJSON,
     conf |-> NoConf, err |-> Nil, ret |-> Nil,
     br |-> 0, tap |-> 0, tapGot |-> 0, tapInterface |-> NoInterface,
     r |-> NilResult, result |-> NilResult, defers |-> <<>>,
     calls |-> <<>>, links0 |-> [n \in LinkNames |-> NoLink], leases0 |-> {},
     fs0 |-> NoFile, released |-> "none", delOutcome |-> "none",
     printed |-> NilResult, saved |-> "none",
     panicked |-> FALSE]

\* What is remembered of the invocation before the current one.
Summary(rec) ==
    [verb |-> rec.verb, stdin |-> rec.stdin, ret |-> rec.ret,
     released |-> rec.released, delOutcome |-> rec.delOutcome,
     panicked |-> rec.panicked]

NewInv(id, verb, bytes) ==
    [IdleInv EXCEPT !.pc = verb, !.id = id, !.verb = verb, !.stdin = bytes,
                    !.links0 = links, !.leases0 = leases, !.fs0 = fs]

\* The function returns e: the result is fixed, the deferred functions run.
Return(rec, e) == [rec EXCEPT !.ret = e, !.pc = "return"]
\* A collaborator is called.
Called(rec, name) == [rec EXCEPT !.calls = Append(@, name)]

InitLinks ==
    {[n \in LinkNames |-> NoLink],
     [n \in LinkNames |->
        IF n = "br0" THEN [NewLink("bridge", 1) EXCEPT !.addr = ForeignAddr, !.up = TRUE]
        ELSE NoLink]}

Init ==
    /\ links \in InitLinks
    /\ nextIndex = 2
    /\ leases = {}
    /\ fs = NoFile
    /\ inv = [p \in Procs |-> IdleInv]
    /\ last = Summary(IdleInv)
    /\ nInv = 0

\* ------------------------------------------------------ the runtime's call
\* skel.PluginMain dispatches one verb; the orchestrator serialises the
\* invocations on a host.
Invoke(p) ==
    /\ inv[p].pc \in {"idle", "done"}
    /\ nInv < MaxInvocations
    /\ \E verb \in {"cmdAdd", "cmdDel", "cmdCheck"}, bytes \in StdinData :
          inv' = [inv EXCEPT ![p] = NewInv(nInv + 1, verb, bytes)]
    /\ nInv' = nInv + 1
    /\ last' = Summary(inv[p])
    /\ UNCHANGED <<links, nextIndex, leases, fs>>

\* ------------------------------------------------- the collaborators
\* The Link Provider (netlink and pkg/ip), as the kernel behaves: a name is
\* taken once, a call on a vanished index fails, and any call may fail for
\* a reason of the kernel's own (fault).
LinkAdd(ls, name, kind, idx, fault) ==
    IF fault \/ ls[name] # NoLink
    THEN [err |-> "LinkAdd failed", links |-> ls]
    ELSE [err |-> Nil, links |-> [ls EXCEPT ![name] = NewLink(kind, idx)]]

AddrAdd(ls, idx, addr, fault) ==
    LET n == NameOfIndex(ls, idx) IN
    IF fault \/ n = ""
    THEN [err |-> "AddrAdd failed", links |-> ls]
    ELSE [err |-> Nil, links |-> [ls EXCEPT ![n].addr = addr]]

LinkSetMaster(ls, idx, master, fault) ==
    LET n == NameOfIndex(ls, idx)
        m == NameOfIndex(ls, master) IN
    IF fault \/ n = "" \/ m = "" \/ n = m \/ ls[m].kind # "bridge"
    THEN [err |-> "LinkSetMaster failed", links |-> ls]
    ELSE [err |-> Nil, links |-> [ls EXCEPT ![n].master = master]]

LinkSetUp(ls, idx, fault) ==
    LET n == NameOfIndex(ls, idx) IN
    IF fault \/ n = ""
    THEN [err |-> "LinkSetUp failed", links |-> ls]
    ELSE [err |-> Nil, links |-> [ls EXCEPT ![n].up = TRUE]]

ErrLinkNotFound == "ErrLinkNotFound"
NSPathNotExistErr == "NSPathNotExistErr"
LinkDelFailed == "failed to delete link"
\* What the environment may make of a deletion: let it through, or fail it.
DelFaults == {"none", NSPathNotExistErr, LinkDelFailed}

\* ip.DelLinkByName: the link is deleted, or was not there, or the deletion
\* fails; a deleted bridge loses its members.
DelLinkByName(ls, name, fault) ==
    IF fault # "none" THEN [err |-> fault, links |-> ls]
    ELSE IF ls[name] = NoLink THEN [err |-> ErrLinkNotFound, links |-> ls]
    ELSE [err |-> Nil,
          links |-> [n \in LinkNames |->
                       IF n = name THEN NoLink
                       ELSE IF ls[n].master = ls[name].index
                            THEN [ls[n] EXCEPT !.master = 0]
                            ELSE ls[n]]]

\* ipam.ExecDel: the delegate named by the type releases what it holds for
\* this sandbox; no delegate can be run without a type.
ExecDel(held, type, fault) ==
    IF fault \/ type = ""
    THEN [err |-> "ipam release failed", leases |-> held]
    ELSE [err |-> Nil, leases |-> {}]

\* ------------------------------------------------------------------ CHECK
cmdCheck(p) ==
    /\ inv[p].pc = "cmdCheck"
    /\ LET pr == parseNetConf(inv[p].stdin) IN
          inv' = [inv EXCEPT ![p] =
                    Return([@ EXCEPT !.conf = pr.conf, !.err = pr.err], pr.err)]
    /\ UNCHANGED <<links, nextIndex, leases, fs, last, nInv>>

\* -------------------------------------------------------------------- DEL
\* The release's error logged and DEL carried on.
ReleaseFailed_ignored(err) == FALSE

\* line 205: a failed release ends DEL at once.
ReleaseFailed(err) == err # Nil

\* The vanished namespace not told from other failures.
cmdDelResult_noNSCheck(err) ==
    IF err # Nil /\ err = ErrLinkNotFound THEN Nil ELSE err

\* The absent device reported as a failure.
cmdDelResult_notFoundFails(err) ==
    IF err # Nil /\ err # ErrLinkNotFound /\ err = NSPathNotExistErr THEN Nil ELSE err

\* lines 212-229: what DEL returns for the outcome of the deletion.
cmdDelResult(err) ==
    IF err # Nil /\ err = ErrLinkNotFound THEN Nil
    ELSE IF err # Nil
         THEN IF err = NSPathNotExistErr THEN Nil ELSE err
         ELSE Nil

cmdDel(p) ==
    /\ inv[p].pc = "cmdDel"
    /\ LET pr == parseNetConf(inv[p].stdin)
           rec == [inv[p] EXCEPT !.conf = pr.conf, !.err = pr.err] IN
          inv' = [inv EXCEPT ![p] =
                    IF pr.err # Nil THEN Return(rec, pr.err)
                    ELSE [rec EXCEPT !.pc = "cmdDel_ExecDel"]]
    /\ UNCHANGED <<links, nextIndex, leases, fs, last, nInv>>

cmdDel_ExecDel(p) ==
    /\ inv[p].pc = "cmdDel_ExecDel"
    /\ \E fault \in BOOLEAN :
          LET out == ExecDel(leases, inv[p].conf.IPAMType, fault)
              rec == [Called(inv[p], "ExecDel") EXCEPT
                         !.err = out.err,
                         !.released = IF out.err = Nil THEN "ok" ELSE "failed"] IN
          /\ leases' = out.leases
          /\ inv' = [inv EXCEPT ![p] =
                       IF ReleaseFailed(out.err) THEN Return(rec, out.err)
                       ELSE [rec EXCEPT !.pc = "cmdDel_DelLinkByName"]]
    /\ UNCHANGED <<links, nextIndex, fs, last, nInv>>

cmdDel_DelLinkByName(p) ==
    /\ inv[p].pc = "cmdDel_DelLinkByName"
    /\ \E fault \in DelFaults :
          LET out == DelLinkByName(links, hostTapName, fault)
              rec == [Called(inv[p], "DelLinkByName") EXCEPT
                         !.err = out.err,
                         !.delOutcome = IF out.err = Nil THEN "deleted" ELSE out.err] IN
          /\ links' = out.links
          /\ inv' = [inv EXCEPT ![p] = Return(rec, cmdDelResult(out.err))]
    /\ UNCHANGED <<nextIndex, leases, fs, last, nInv>>

\* -------------------------------------------------------------------- ADD
\* Deferred functions registered in the reverse order.
Defer_first(stack, f) == <<f>> \o stack

\* A defer statement: f is pushed on the function's stack of deferred calls.
Defer(stack, f) == Append(stack, f)

\* lines 124-132: parse, and refuse a configuration without an IPAM type.
\* Nothing is deferred yet.
cmdAdd(p) ==
    /\ inv[p].pc = "cmdAdd"
    /\ LET pr == parseNetConf(inv[p].stdin)
           rec == [inv[p] EXCEPT !.conf = pr.conf, !.err = pr.err] IN
          inv' = [inv EXCEPT ![p] =
                    IF pr.err # Nil THEN Return(rec, pr.err)
                    ELSE IF MissingIPAM(pr.conf)
                         THEN Return(rec, "tap interface requires an IPAM configuration")
                         ELSE [rec EXCEPT !.pc = "LinkByName_bridge"]]
    /\ UNCHANGED <<links, nextIndex, leases, fs, last, nInv>>

\* The configured address assigned to a bridge that was found.
AfterBridgeLookup_reconcile(found) ==
    IF found THEN "AddrAdd_bridge" ELSE "LinkAdd_bridge"

\* lines 56-85: where the bridge lookup leads. A bridge that is found is
\* used as it is.
AfterBridgeLookup(found) ==
    IF found THEN "LinkAdd_tap" ELSE "LinkAdd_bridge"

\* The save of the record deferred before createTapInterface is called.
createTapInterfaceFailed_saveDeferred(rec, e) ==
    Return([rec EXCEPT !.err = e, !.result = EmptyResult, !.defers = <<"Save">>], e)

\* The error of createTapInterface dropped: cmdAdd goes on to the allocation.
createTapInterfaceFailed_ignored(rec, e) == [rec EXCEPT !.pc = "ExecAdd"]

\* The deletion of the tap deferred before createTapInterface is called.
createTapInterfaceFailed_cleanup(rec, e) ==
    Return([rec EXCEPT !.err = e, !.defers = <<"DelLinkByName">>], e)

\* line 137: createTapInterface failed, cmdAdd returns its error.
createTapInterfaceFailed(rec, e) == Return([rec EXCEPT !.err = e], e)

\* line 56
createTapInterface_LinkByName(p) ==
    /\ inv[p].pc = "LinkByName_bridge"
    /\ \E fault \in BOOLEAN :
          LET rec == Called(inv[p], "LinkByName")
              br == links[rec.conf.Bridge] IN
          inv' = [inv EXCEPT ![p] =
                    IF fault
                    THEN createTapInterfaceFailed(rec, "failed to fetch master bridge device")
                    ELSE [rec EXCEPT !.br = br.index,
                                     !.pc = AfterBridgeLookup(br # NoLink)]]
    /\ UNCHANGED <<links, nextIndex, leases, fs, last, nInv>>

\* lines 63-71
createTapInterface_LinkAddBridge(p) ==
    /\ inv[p].pc = "LinkAdd_bridge"
    /\ \E fault \in BOOLEAN :
          LET rec == Called(inv[p], "LinkAdd")
              out == LinkAdd(links, rec.conf.Bridge, "bridge", nextIndex, fault) IN
          /\ links' = out.links
          /\ nextIndex' = IF out.err = Nil THEN nextIndex + 1 ELSE nextIndex
          /\ inv' = [inv EXCEPT ![p] =
                       IF out.err # Nil
                       THEN createTapInterfaceFailed(rec, "failed to create bridge link")
                       ELSE [rec EXCEPT !.br = nextIndex, !.pc = "AddrAdd_bridge"]]
    /\ UNCHANGED <<leases, fs, last, nInv>>

\* lines 73-81: the bridge gets the network ParseCIDR returns.
createTapInterface_AddrAdd(p) ==
    /\ inv[p].pc = "AddrAdd_bridge"
    /\ LET cidr == ParseCIDR(inv[p].conf.BridgeIP) IN
       IF cidr.err # Nil
       THEN /\ inv' = [inv EXCEPT ![p] =
                         createTapInterfaceFailed(@, "failed to parse bridge IP")]
            /\ UNCHANGED links
       ELSE \E fault \in BOOLEAN :
               LET rec == Called(inv[p], "AddrAdd")
                   out == AddrAdd(links, rec.br, cidr.ipnet, fault) IN
               /\ links' = out.links
               /\ inv' = [inv EXCEPT ![p] =
                            IF out.err # Nil
                            THEN createTapInterfaceFailed(rec, "failed to add IP addr")
                            ELSE [rec EXCEPT !.pc = "LinkAdd_tap"]]
    /\ UNCHANGED <<nextIndex, leases, fs, last, nInv>>

\* lines 87-97
createTapInterface_LinkAddTap(p) ==
    /\ inv[p].pc = "LinkAdd_tap"
    /\ \E fault \in BOOLEAN :
          LET rec == Called(inv[p], "LinkAdd")
              out == LinkAdd(links, hostTapName, "tap", nextIndex, fault) IN
          /\ links' = out.links
          /\ nextIndex' = IF out.err = Nil THEN nextIndex + 1 ELSE nextIndex
          /\ inv' = [inv EXCEPT ![p] =
                       IF out.err # Nil
                       THEN createTapInterfaceFailed(rec, "failed to create tap link")
                       ELSE [rec EXCEPT !.tap = nextIndex,
                                        !.tapInterface.Name = hostTapName,
                                        !.pc = "LinkSetMaster"]]
    /\ UNCHANGED <<leases, fs, last, nInv>>

\* lines 99-102: an error is returned as it is; the tap stays.
createTapInterface_LinkSetMaster(p) ==
    /\ inv[p].pc = "LinkSetMaster"
    /\ \E fault \in BOOLEAN :
          LET rec == Called(inv[p], "LinkSetMaster")
              out == LinkSetMaster(links, rec.tap, rec.br, fault) IN
          /\ links' = out.links
          /\ inv' = [inv EXCEPT ![p] =
                       IF out.err # Nil
                       THEN createTapInterfaceFailed(rec, "failed to link tap device to master")
                       ELSE [rec EXCEPT !.pc = "LinkByName_tap"]]
    /\ UNCHANGED <<nextIndex, leases, fs, last, nInv>>

\* lines 104-111
createTapInterface_LinkByNameTap(p) ==
    /\ inv[p].pc = "LinkByName_tap"
    /\ \E fault \in BOOLEAN :
          LET rec == Called(inv[p], "LinkByName")
              tapGot == links[hostTapName] IN
          inv' = [inv EXCEPT ![p] =
                    IF fault \/ tapGot = NoLink
                    THEN createTapInterfaceFailed(rec, "failed to fetch tap device")
                    ELSE [rec EXCEPT !.tapGot = tapGot.index,
                                     !.tapInterface.Mac = tapGot.hwaddr,
                                     !.pc = "LinkSetUp"]]
    /\ UNCHANGED <<links, nextIndex, leases, fs, last, nInv>>

\* lines 113-116 and 136-153: the tap is brought up; back in cmdAdd the
\* result starts empty, and saving the record and deleting the link on
\* error are deferred, in this order.
createTapInterface_LinkSetUp(p) ==
    /\ inv[p].pc = "LinkSetUp"
    /\ \E fault \in BOOLEAN :
          LET rec == Called(inv[p], "LinkSetUp")
              out == LinkSetUp(links, rec.tapGot, fault) IN
          /\ links' = out.links
          /\ inv' = [inv EXCEPT ![p] =
                       IF out.err # Nil
                       THEN createTapInterfaceFailed(rec, "failed to set up")
                       ELSE [rec EXCEPT !.result = EmptyResult,
                                        !.defers = Defer(Defer(@, "Save"),
                                                         "DelLinkByName"),
                                        !.pc = "ExecAdd"]]
    /\ UNCHANGED <<nextIndex, leases, fs, last, nInv>>

\* lines 155-165: on success the release on error is deferred too.
cmdAdd_ExecAdd(p) ==
    /\ inv[p].pc = "ExecAdd"
    /\ LET rec == Called(inv[p], "ExecAdd") IN
       \/ /\ inv' = [inv EXCEPT ![p] =
                       Return([rec EXCEPT !.err = "ipam allocation failed"],
                              "ipam allocation failed")]
          /\ UNCHANGED leases
       \/ \E choice \in AllocResults :
             /\ leases' = leases \cup {rec.id}
             /\ inv' = [inv EXCEPT ![p] =
                          [rec EXCEPT !.r = IPAMResult(choice),
                                      !.defers = Defer(@, "ExecDel"),
                                      !.pc = "NewResultFromResult"]]
    /\ UNCHANGED <<links, nextIndex, fs, last, nInv>>

\* The empty allocation let through.
MissingIPConfig_unchecked(result) == FALSE

\* line 173
MissingIPConfig(result) == Len(result.IPs) = 0

\* The IP configurations left bound as the allocator returned them.
ComposeResult_noRebind(result, tapInterface) ==
    [result EXCEPT
        !.Interfaces = <<tapInterface>>,
        !.Annotations = {a \in result.Annotations : a[1] # "metafile"}
                            \cup {<<"metafile", metaFile>>}]

\* lines 177-187: every IP configuration is bound to interface 0, the tap
\* is the one interface, the record's path goes into the annotations.
ComposeResult(result, tapInterface) ==
    [result EXCEPT
        !.IPs = [i \in 1..Len(result.IPs) |-> [result.IPs[i] EXCEPT !.Interface = 0]],
        !.Interfaces = <<tapInterface>>,
        !.Annotations = {a \in result.Annotations : a[1] # "metafile"}
                            \cup {<<"metafile", metaFile>>}]

\* lines 167-187: a failed conversion leaves result nil and err set; an
\* empty allocation returns a new error while err stays nil.
cmdAdd_NewResultFromResult(p) ==
    /\ inv[p].pc = "NewResultFromResult"
    /\ \E fault \in BOOLEAN :
          LET rec == Called(inv[p], "NewResultFromResult") IN
          inv' = [inv EXCEPT ![p] =
                    IF fault
                    THEN Return([rec EXCEPT !.result = NilResult,
                                            !.err = "result conversion failed"],
                                "result conversion failed")
                    ELSE LET got == [rec EXCEPT !.result = rec.r, !.err = Nil] IN
                         IF MissingIPConfig(got.result)
                         THEN Return(got, "IPAM plugin returned missing IP config")
                         ELSE [got EXCEPT
                                  !.result = ComposeResult(got.result, got.tapInterface),
                                  !.pc = "PrintResult"]]
    /\ UNCHANGED <<links, nextIndex, leases, fs, last, nInv>>

\* line 193: the error of the emission is returned directly; err stays nil.
cmdAdd_PrintResult(p) ==
    /\ inv[p].pc = "PrintResult"
    /\ \E fault \in BOOLEAN :
          LET rec == Called(inv[p], "PrintResult") IN
          inv' = [inv EXCEPT ![p] =
                    IF fault THEN Return(rec, "failed to print result")
                    ELSE Return([rec EXCEPT !.printed = rec.result], Nil)]
    /\ UNCHANGED <<links, nextIndex, leases, fs, last, nInv>>

\* The deferred clean-up never taken.
CleanupWanted_never(err) == FALSE

\* lines 150, 162: a deferred clean-up acts when the local err is set.
CleanupWanted(err) == err # Nil

\* The deferred function on top of the stack.
TopDefer(rec) == IF rec.defers = <<>> THEN "" ELSE rec.defers[Len(rec.defers)]
PopDefer(rec) == [rec EXCEPT !.defers = SubSeq(@, 1, Len(@) - 1)]

\* lines 161-165: release on error; the outcome of the release is dropped.
cmdAdd_deferExecDel(p) ==
    /\ inv[p].pc = "return"
    /\ TopDefer(inv[p]) = "ExecDel"
    /\ IF CleanupWanted(inv[p].err)
       THEN \E fault \in BOOLEAN :
               LET out == ExecDel(leases, inv[p].conf.IPAMType, fault) IN
               /\ leases' = out.leases
               /\ inv' = [inv EXCEPT ![p] =
                            PopDefer([Called(@, "ExecDel") EXCEPT
                                         !.released = IF out.err = Nil THEN "ok"
                                                      ELSE "failed"])]
       ELSE /\ inv' = [inv EXCEPT ![p] = PopDefer(@)]
            /\ UNCHANGED leases
    /\ UNCHANGED <<links, nextIndex, fs, last, nInv>>

\* lines 149-153: delete the tap on error; err takes the deletion's outcome.
cmdAdd_deferDelLinkByName(p) ==
    /\ inv[p].pc = "return"
    /\ TopDefer(inv[p]) = "DelLinkByName"
    /\ IF CleanupWanted(inv[p].err)
       THEN \E fault \in DelFaults :
               LET out == DelLinkByName(links, hostTapName, fault) IN
               /\ links' = out.links
               /\ inv' = [inv EXCEPT ![p] =
                            PopDefer([Called(@, "DelLinkByName") EXCEPT
                                         !.err = out.err,
                                         !.delOutcome = IF out.err = Nil THEN "deleted"
                                                        ELSE out.err])]
       ELSE /\ inv' = [inv EXCEPT ![p] = PopDefer(@)]
            /\ UNCHANGED links
    /\ UNCHANGED <<nextIndex, leases, fs, last, nInv>>

\* Directory and file created for everyone to write (octal 0777, 0666).
Save_worldWritable(f, path, body, outcome) ==
    IF outcome = "mkdir" THEN f
    ELSE LET d == [f EXCEPT !.dirExists = TRUE,
                            !.dirMode = IF f.dirExists THEN f.dirMode
                                        ELSE AndNot(511, f.umask)] IN
         IF outcome = "write" THEN d
         ELSE [d EXCEPT !.fileExists = TRUE,
                        !.fileMode = IF f.fileExists THEN f.fileMode
                                     ELSE AndNot(438, f.umask),
                        !.path = path,
                        !.body = body]

\* dan.Save: the directory is made, then the file is written; either may
\* fail. outcome is "mkdir", "write" or "ok".
\* A directory or file that is created gets the mode asked for less the
\* process's umask; one that exists keeps its mode.
Save(f, path, body, outcome) ==
    IF outcome = "mkdir" THEN f
    ELSE LET d == [f EXCEPT !.dirExists = TRUE,
                            !.dirMode = IF f.dirExists THEN f.dirMode
                                        ELSE AndNot(DirMode, f.umask)] IN
         IF outcome = "write" THEN d
         ELSE [d EXCEPT !.fileExists = TRUE,
                        !.fileMode = IF f.fileExists THEN f.fileMode
                                     ELSE AndNot(FileMode, f.umask),
                        !.path = path,
                        !.body = body]

SaveErr(outcome) == IF outcome = "ok" THEN Nil ELSE "failed to save " \o outcome

\* The failed save made the ADD's failure.
AfterSave_surfaced(rec, saveErr) ==
    IF saveErr # Nil THEN [rec EXCEPT !.ret = saveErr, !.err = saveErr,
                                      !.defers = <<"DelLinkByName">>]
    ELSE rec

\* line 145: the outcome of the save is dropped.
AfterSave(rec, saveErr) == rec

\* lines 143-146: the record is built from whatever result holds now and
\* saved; the outcome of the save is dropped. FromResult reads through the
\* result pointer: a nil result panics, and the deferred functions still
\* on the stack run before the process dies.
cmdAdd_deferSave(p) ==
    /\ inv[p].pc = "return"
    /\ TopDefer(inv[p]) = "Save"
    /\ IF inv[p].result.nil
       THEN /\ inv' = [inv EXCEPT ![p] =
                         [PopDefer(Called(@, "FromResult")) EXCEPT !.panicked = TRUE]]
            /\ UNCHANGED fs
       ELSE \E outcome \in {"mkdir", "write", "ok"} :
               LET meta == FromResult(DirectAttachableNetworkTypeTap, hostTapName,
                                      SandboxIfName, inv[p].result) IN
               /\ fs' = Save(fs, metaFile, meta, outcome)
               /\ inv' = [inv EXCEPT ![p] =
                            AfterSave([PopDefer(Called(@, "Save")) EXCEPT
                                          !.saved = outcome],
                                      SaveErr(outcome))]
    /\ UNCHANGED <<links, nextIndex, leases, last, nInv>>

\* The function is left (or the process dies of the panic): no deferred
\* function remains.
Finish(p) ==
    /\ inv[p].pc = "return"
    /\ inv[p].defers = <<>>
    /\ inv' = [inv EXCEPT ![p].pc = "done"]
    /\ UNCHANGED <<links, nextIndex, leases, fs, last, nInv>>

\* A step of cmdAdd.
AddStep(p) ==
        \/ cmdAdd(p)
        \/ createTapInterface_LinkByName(p)
        \/ createTapInterface_LinkAddBridge(p)
        \/ createTapInterface_AddrAdd(p)
        \/ createTapInterface_LinkAddTap(p)
        \/ createTapInterface_LinkSetMaster(p)
        \/ createTapInterface_LinkByNameTap(p)
        \/ createTapInterface_LinkSetUp(p)
        \/ cmdAdd_ExecAdd(p)
        \/ cmdAdd_NewResultFromResult(p)
        \/ cmdAdd_PrintResult(p)
        \/ cmdAdd_deferExecDel(p)
        \/ cmdAdd_deferDelLinkByName(p)
        \/ cmdAdd_deferSave(p)

Next ==
    \E p \in SerialProcs :
        \/ Invoke(p)
        \/ cmdCheck(p)
        \/ AddStep(p)
        \/ cmdDel(p)
        \/ cmdDel_ExecDel(p)
        \/ cmdDel_DelLinkByName(p)
        \/ Finish(p)

Spec == Init /\ [][Next]_vars

\* ------------------------------------------- two ADDs at the same time
\* The runtime starts one ADD in each process; their steps interleave.
\* Both are given the network configuration of the host. The processes are
\* alike, so the first is the one started first.
ConcStdinData == {Config("br0", ConfiguredCIDR, "static")}

InvokeAdd(p) ==
    /\ inv[p].pc = "idle"
    /\ \A q \in Procs : q < p => inv[q].pc # "idle"
    /\ \E bytes \in ConcStdinData :
          inv' = [inv EXCEPT ![p] = NewInv(nInv + 1, "cmdAdd", bytes)]
    /\ nInv' = nInv + 1
    /\ UNCHANGED <<links, nextIndex, leases, fs, last>>

NextConc ==
    \E p \in Procs :
        \/ InvokeAdd(p)
        \/ AddStep(p)
        \/ Finish(p)

SpecConc == Init /\ [][NextConc]_vars

\* ------------------------------------------- the plugin under any umask
\* Invocations of ADD and DEL the runtime makes when the umask is left open.
MaxUmaskInvocations == 2

InitUmask ==
    /\ links \in InitLinks
    /\ nextIndex = 2
    /\ leases = {}
    /\ \E u \in Umasks : fs = [NoFile EXCEPT !.umask = u]
    /\ inv = [p \in Procs |-> IdleInv]
    /\ last = Summary(IdleInv)
    /\ nInv = 0

InvokeUmask(p) ==
    /\ inv[p].pc \in {"idle", "done"}
    /\ nInv < MaxUmaskInvocations
    /\ \E verb \in {"cmdAdd", "cmdDel"}, bytes \in StdinData :
          inv' = [inv EXCEPT ![p] = NewInv(nInv + 1, verb, bytes)]
    /\ nInv' = nInv + 1
    /\ last' = Summary(inv[p])
    /\ UNCHANGED <<links, nextIndex, leases, fs>>

NextUmask ==
    \E p \in SerialProcs :
        \/ InvokeUmask(p)
        \/ AddStep(p)
        \/ cmdDel(p)
        \/ cmdDel_ExecDel(p)
        \/ cmdDel_DelLinkByName(p)
        \/ Finish(p)

SpecUmask == InitUmask /\ [][NextUmask]_vars

\* ----------------------------------------------------------- the claims
InCalls(rec, name) == \E i \in 1..Len(rec.calls) : rec.calls[i] = name
Returned(rec) == rec.pc = "done" /\ ~rec.panicked
AddFailed(rec) == rec.verb = "cmdAdd" /\ Returned(rec) /\ rec.ret # Nil
AddSucceeded(rec) == rec.verb = "cmdAdd" /\ Returned(rec) /\ rec.ret = Nil
\* The tap this invocation created is still there.
TapLeft(rec) == rec.tap # 0 /\ links[hostTapName].index = rec.tap
\* The allocation this invocation obtained is still held.
LeaseLeft(rec) == rec.id \in leases
TapAbsent == links[hostTapName] = NoLink
AllocationFailed(rec) ==
    rec.verb = "cmdAdd" /\ Returned(rec) /\ rec.ret = "ipam allocation failed"

\* C1: an ADD that has returned a failure has left neither the tap device
\* it created nor an allocation it obtained.
C1_AddAllOrNothing ==
    \A p \in Procs :
        AddFailed(inv[p]) => ~TapLeft(inv[p]) /\ ~LeaseLeft(inv[p])

\* C2: when the allocator answers with zero IP configurations, ADD returns
\* a failure with the tap device deleted and the release invoked.
C2_EmptyAllocationRolledBack ==
    \A p \in Procs :
        (/\ inv[p].verb = "cmdAdd" /\ Returned(inv[p])
         /\ ~inv[p].r.nil /\ Len(inv[p].r.IPs) = 0)
        => /\ inv[p].ret # Nil
           /\ TapAbsent
           /\ InCalls(inv[p], "ExecDel")

\* C3: when binding the tap to the bridge, re-reading it or bringing it up
\* fails, the tap created by this ADD is gone when ADD has returned.
C3_TapDeletedOnBindOrActivateFailure ==
    \A p \in Procs :
        (/\ AddFailed(inv[p])
         /\ inv[p].ret \in {"failed to link tap device to master",
                            "failed to fetch tap device", "failed to set up"})
        => ~TapLeft(inv[p])

\* C4 (as claimed): when the allocation fails, ADD returns the allocator's
\* error and the tap device does not exist once ADD has returned.
C4_NoOrphanOnAllocationFailure ==
    \A p \in Procs :
        (inv[p].verb = "cmdAdd" /\ Returned(inv[p])
         /\ InCalls(inv[p], "ExecAdd") /\ inv[p].r.nil)
        => inv[p].ret = "ipam allocation failed" /\ TapAbsent

\* C4 (amended): when the allocation fails, ADD returns the allocator's
\* error, has called the deletion of the tap device and not the release,
\* and the device does not exist unless that deletion itself failed.
C4_AllocationFailureDeletesTap ==
    \A p \in Procs :
        (inv[p].verb = "cmdAdd" /\ Returned(inv[p])
         /\ InCalls(inv[p], "ExecAdd") /\ inv[p].r.nil)
        => /\ inv[p].ret = "ipam allocation failed"
           /\ InCalls(inv[p], "DelLinkByName")
           /\ inv[p].delOutcome \in {"deleted", NSPathNotExistErr, LinkDelFailed}
           /\ inv[p].delOutcome = "deleted" => TapAbsent
           /\ inv[p].delOutcome # "deleted" => TapLeft(inv[p])
           /\ ~InCalls(inv[p], "ExecDel")

C4_Witness ==
    \E p \in Procs :
        /\ AllocationFailed(inv[p])
        /\ inv[p].delOutcome = "deleted"
        /\ inv[p].tap # 0
        /\ TapAbsent

\* Two DELs in succession with the same configuration, the release
\* succeeding in both.
DelTwice(rec) ==
    /\ rec.verb = "cmdDel" /\ Returned(rec)
    /\ last.verb = "cmdDel" /\ last.stdin = rec.stdin
    /\ last.released = "ok" /\ rec.released = "ok"

\* C5 (as claimed): DEL twice in succession, the release succeeding each
\* time, succeeds both times; the first leaves no tap device and the
\* second changes no link.
C5_DelIdempotent ==
    \A p \in Procs :
        DelTwice(inv[p])
        => /\ last.ret = Nil /\ inv[p].ret = Nil
           /\ inv[p].links0[hostTapName] = NoLink
           /\ links = inv[p].links0

\* C5 (amended): the same, provided each call's deletion either deleted
\* the device or found it absent (the deletion itself met no failure); the
\* second call's deletion then only observes not-found.
C5_DelIdempotentWithoutDeletionFailure ==
    \A p \in Procs :
        (/\ DelTwice(inv[p])
         /\ last.delOutcome \in {"deleted", ErrLinkNotFound}
         /\ inv[p].delOutcome \in {"deleted", ErrLinkNotFound})
        => /\ last.ret = Nil /\ inv[p].ret = Nil
           /\ inv[p].links0[hostTapName] = NoLink
           /\ links = inv[p].links0
           /\ inv[p].delOutcome = ErrLinkNotFound

C5_Witness ==
    \E p \in Procs :
        /\ DelTwice(inv[p])
        /\ last.delOutcome = "deleted"
        /\ inv[p].delOutcome = ErrLinkNotFound
        /\ last.ret = Nil /\ inv[p].ret = Nil

\* C6: a bridge that exists when ADD starts is the same link, unchanged,
\* in every state of that ADD and after it.
C6_BridgePreserved ==
    \A p \in Procs :
        (/\ inv[p].verb = "cmdAdd"
         /\ inv[p].stdin.json
         /\ inv[p].links0[inv[p].stdin.Bridge] # NoLink)
        => links[inv[p].stdin.Bridge] = inv[p].links0[inv[p].stdin.Bridge]

C6_Witness ==
    \E p \in Procs :
        /\ AllocationFailed(inv[p])
        /\ inv[p].delOutcome = "deleted"
        /\ inv[p].links0["br0"].kind = "bridge"
        /\ inv[p].stdin.Bridge = "br0"
        /\ links["br0"].addr = ForeignAddr

\* C7: a DEL whose release fails returns that failure without calling the
\* deletion; the links are as they were before the DEL.
C7_ReleaseFailureStopsDel ==
    \A p \in Procs :
        (inv[p].verb = "cmdDel" /\ inv[p].released = "failed")
        => /\ inv[p].pc \in {"return", "done"}
           /\ inv[p].ret = "ipam release failed"
           /\ ~InCalls(inv[p], "DelLinkByName")
           /\ links = inv[p].links0

C7_Witness ==
    \E p \in Procs :
        /\ inv[p].verb = "cmdDel" /\ Returned(inv[p])
        /\ inv[p].released = "failed"
        /\ inv[p].stdin.IPAMType = "static"
        /\ links[hostTapName].kind = "tap"

\* C8: after a successful release DEL succeeds when the device was
\* deleted, was not found, or the namespace is gone, and returns the
\* failure of the deletion in every other case.
C8_DelOutcomeMapping ==
    \A p \in Procs :
        (inv[p].verb = "cmdDel" /\ Returned(inv[p]) /\ inv[p].released = "ok")
        => /\ inv[p].delOutcome \in
                 {"deleted", ErrLinkNotFound, NSPathNotExistErr, LinkDelFailed}
           /\ inv[p].delOutcome \in {"deleted", ErrLinkNotFound, NSPathNotExistErr}
                 => inv[p].ret = Nil
           /\ inv[p].delOutcome = LinkDelFailed => inv[p].ret = LinkDelFailed
           /\ inv[p].ret = Nil => inv[p].delOutcome # LinkDelFailed

C8_Witness ==
    \E p \in Procs :
        /\ inv[p].verb = "cmdDel" /\ Returned(inv[p]) /\ inv[p].released = "ok"
        /\ inv[p].delOutcome = NSPathNotExistErr
        /\ inv[p].ret = Nil
        /\ links[hostTapName].kind = "tap"

\* C9: an ADD whose configuration names no IPAM type fails without having
\* called any collaborator: links, leases and the record are untouched.
C9_NoIPAMNoSideEffect ==
    \A p \in Procs :
        (/\ inv[p].verb = "cmdAdd"
         /\ inv[p].stdin.json /\ inv[p].stdin.IPAMType = "")
        => /\ inv[p].pc \in {"cmdAdd", "return", "done"}
           /\ inv[p].pc # "cmdAdd" => inv[p].ret # Nil
           /\ inv[p].calls = <<>>
           /\ inv[p].defers = <<>>
           /\ links = inv[p].links0
           /\ leases = inv[p].leases0
           /\ fs = inv[p].fs0

C9_Witness ==
    \E p \in Procs :
        /\ AddFailed(inv[p])
        /\ inv[p].stdin.json /\ inv[p].stdin.IPAMType = ""
        /\ inv[p].links0["br0"] = NoLink

\* C10: when ADD returns success the tap device exists, is a member of the
\* configured bridge and up, an allocation with at least one address is
\* held, and the result lists the tap with its hardware address as its one
\* interface.
C10_SuccessPostcondition ==
    \A p \in Procs :
        AddSucceeded(inv[p])
        => LET tap == links[hostTapName]
               br == links[inv[p].conf.Bridge] IN
           /\ tap.kind = "tap" /\ tap.index = inv[p].tap
           /\ br.kind = "bridge" /\ tap.master = br.index
           /\ tap.up
           /\ inv[p].id \in leases
           /\ Len(inv[p].printed.IPs) >= 1
           /\ inv[p].printed.Interfaces = <<[Name |-> hostTapName, Mac |-> tap.hwaddr]>>

C10_Witness ==
    \E p \in Procs :
        /\ AddSucceeded(inv[p])
        /\ inv[p].links0 = [n \in LinkNames |-> NoLink]
        /\ Len(inv[p].printed.IPs) = MaxIPs

\* C11: after a successful ADD the result holds the allocator's IP
\* configurations, as many and in the same order, each bound to interface
\* index 0 whatever index the allocator gave it.
C11_InterfaceIndexRebinding ==
    \A p \in Procs :
        AddSucceeded(inv[p])
        => LET got == inv[p].r.IPs
               out == inv[p].printed.IPs IN
           /\ Len(got) >= 1
           /\ Len(out) = Len(got)
           /\ \A i \in 1..Len(got) :
                 /\ out[i].Interface = 0
                 /\ out[i].Address = got[i].Address

C11_Witness ==
    \E p \in Procs :
        /\ AddSucceeded(inv[p])
        /\ Len(inv[p].r.IPs) = MaxIPs
        /\ inv[p].r.IPs[1].Interface = 1
        /\ inv[p].r.IPs[MaxIPs].Interface = -1
        /\ \A i \in 1..MaxIPs : inv[p].printed.IPs[i].Interface = 0

\* The value of key k in an annotation map ("" when the key is absent).
Annotation(m, k) ==
    IF \E a \in m : a[1] = k THEN (CHOOSE a \in m : a[1] = k)[2] ELSE ""

\* <base-dir>/<kind>/<host-device-name>.json
RecordPath(kind, device) == "/tmp/dans/" \o kind \o "/" \o device \o ".json"

\* C12: after a successful ADD the result's annotations hold metafile, the
\* path of the record of kind tap for the host device; if the save
\* succeeded, the record at that path names kind tap, the host device, the
\* sandbox interface, and carries the interfaces, IP configurations,
\* routes, DNS and annotations of the returned result.
C12_MetafileAnnotationAndRecord ==
    \A p \in Procs :
        AddSucceeded(inv[p])
        => LET out == inv[p].printed IN
           /\ Cardinality({a \in out.Annotations : a[1] = "metafile"}) = 1
           /\ Annotation(out.Annotations, "metafile")
                 = RecordPath(DirectAttachableNetworkTypeTap, hostTapName)
           /\ inv[p].saved = "ok"
                 => /\ fs.fileExists
                    /\ fs.path = Annotation(out.Annotations, "metafile")
                    /\ fs.body.NetworkType = "tap"
                    /\ fs.body.DeviceName = hostTapName
                    /\ fs.body.ContainerInterfaceName = SandboxIfName
                    /\ fs.body.Interfaces = out.Interfaces
                    /\ fs.body.IPs = out.IPs
                    /\ fs.body.Routes = out.Routes
                    /\ fs.body.DNS = out.DNS
                    /\ fs.body.Annotations = out.Annotations

C12_Witness ==
    \E p \in Procs :
        /\ AddSucceeded(inv[p])
        /\ inv[p].saved = "ok"
        /\ fs.body.IPs = inv[p].printed.IPs
        /\ Len(fs.body.IPs) = MaxIPs
        /\ <<"metafile", metaFile>> \in fs.body.Annotations

\* The deferred save of process p is about to run on a result that is there.
AtSave(p) ==
    /\ inv[p].verb = "cmdAdd" /\ inv[p].pc = "return"
    /\ TopDefer(inv[p]) = "Save" /\ ~inv[p].result.nil

\* C13: the save of the record, whether it succeeds or fails, changes
\* neither what ADD returns and has printed nor the links and leases, and
\* nothing runs after it: no failure of the save fails the ADD or rolls it
\* back.
C13_SaveOutcomeInert ==
    [][\A p \in Procs :
          (AtSave(p) /\ inv'[p] # inv[p])
          => /\ links' = links
             /\ leases' = leases
             /\ inv'[p].ret = inv[p].ret
             /\ inv'[p].err = inv[p].err
             /\ inv'[p].printed = inv[p].printed
             /\ inv'[p].pc = "return" /\ inv'[p].defers = <<>>
             /\ ~inv'[p].panicked]_vars

C13_Witness ==
    \E p \in Procs :
        /\ AddSucceeded(inv[p])
        /\ inv[p].saved = "write"
        /\ ~fs.fileExists
        /\ TapLeft(inv[p]) /\ LeaseLeft(inv[p])

\* C14 (as claimed): a record that has been persisted is never changed or
\* removed by a later step of any invocation.
C14_RecordNeverChanged ==
    [][fs.fileExists => fs'.fileExists /\ fs'.body = fs.body]_vars

\* C14 (amended): a record that has been persisted is never removed, and
\* its content changes only in the deferred save of an ADD that created the
\* tap device, which replaces it by that ADD's record; DEL and CHECK never
\* change it.
C14_RecordChangedOnlyByAddSave ==
    [][fs.fileExists
       => /\ fs'.fileExists
          /\ fs'.body # fs.body
               => \E p \in Procs :
                     /\ AtSave(p)
                     /\ inv[p].tap # 0
                     /\ inv'[p].saved = "ok"
                     /\ fs'.body = FromResult(DirectAttachableNetworkTypeTap,
                                              hostTapName, SandboxIfName,
                                              inv[p].result)]_vars

C14_Witness ==
    \E p \in Procs :
        /\ inv[p].verb = "cmdDel" /\ Returned(inv[p])
        /\ inv[p].delOutcome = "deleted"
        /\ inv[p].fs0.fileExists
        /\ Len(inv[p].fs0.body.IPs) >= 1
        /\ fs = inv[p].fs0

\* C15: an ADD that has returned a failure has written no record naming a
\* host device that does not exist.
C15_NoStaleRecord ==
    \A p \in Procs :
        (AddFailed(inv[p]) /\ inv[p].saved = "ok")
        => links[fs.body.DeviceName] # NoLink

\* Octal 0600 and 0700 as sets of permission bits.
OwnerOnly(mode, ownerBits) == AndNot(mode, ownerBits) = 0

\* C16 (as claimed): the record file is accessible to its owner only (at
\* most read and write), the directory made for it to its owner only.
C16_OwnerOnlyPermissions ==
    /\ fs.fileExists => OwnerOnly(fs.fileMode, 384)
    /\ fs.dirExists => OwnerOnly(fs.dirMode, 448)

\* C16 (amended): the record file is created with at most mode 0644 and the
\* directory with at most 0755, less the process's umask: only the owner
\* may write; group and others may read (and enter the directory) unless
\* the umask forbids it.
C16_OwnerWritableOnly ==
    /\ fs.fileExists
          => /\ fs.fileMode = AndNot(420, fs.umask)
             /\ AndNot(fs.fileMode, 420) = 0
    /\ fs.dirExists
          => /\ fs.dirMode = AndNot(493, fs.umask)
             /\ AndNot(fs.dirMode, 493) = 0

C16_Witness ==
    /\ fs.fileExists /\ fs.dirExists
    /\ fs.umask = 0
    /\ fs.fileMode = 420 /\ fs.dirMode = 493
    /\ \E p \in Procs : inv[p].verb = "cmdAdd" /\ inv[p].saved = "ok"

\* Position of the first call of that name in the invocation's calls (0 if
\* there is none).
FirstCall(rec, name) ==
    IF InCalls(rec, name)
    THEN CHOOSE i \in 1..Len(rec.calls) :
            /\ rec.calls[i] = name
            /\ \A j \in 1..(i - 1) : rec.calls[j] # name
    ELSE 0

BothCleanups(rec) ==
    rec.verb = "cmdAdd" /\ InCalls(rec, "ExecDel") /\ InCalls(rec, "DelLinkByName")

\* C17 (as claimed): when an ADD performs both clean-up actions, the tap is
\* deleted before the allocation is released; release only after a
\* successful allocation, deletion only after the tap was created.
C17_DeletionBeforeRelease ==
    \A p \in Procs :
        /\ BothCleanups(inv[p])
              => FirstCall(inv[p], "DelLinkByName") < FirstCall(inv[p], "ExecDel")
        /\ (inv[p].verb = "cmdAdd" /\ InCalls(inv[p], "ExecDel")) => ~inv[p].r.nil
        /\ (inv[p].verb = "cmdAdd" /\ InCalls(inv[p], "DelLinkByName"))
              => inv[p].tap # 0

\* C17 (amended): when an ADD performs both clean-up actions, the
\* allocation is released before the tap is deleted; the release is
\* invoked only after a successful allocation of this invocation, and then
\* after it, the deletion only after this invocation created the tap.
C17_ReleaseBeforeDeletion ==
    \A p \in Procs :
        /\ BothCleanups(inv[p])
              => FirstCall(inv[p], "ExecDel") < FirstCall(inv[p], "DelLinkByName")
        /\ (inv[p].verb = "cmdAdd" /\ InCalls(inv[p], "ExecDel"))
              => /\ ~inv[p].r.nil
                 /\ 0 < FirstCall(inv[p], "ExecAdd")
                 /\ FirstCall(inv[p], "ExecAdd") < FirstCall(inv[p], "ExecDel")
        /\ (inv[p].verb = "cmdAdd" /\ InCalls(inv[p], "DelLinkByName"))
              => inv[p].tap # 0

C17_Witness ==
    \E p \in Procs :
        /\ BothCleanups(inv[p])
        /\ inv[p].pc = "done"
        /\ inv[p].released = "ok" /\ inv[p].delOutcome = "deleted"
        /\ inv[p].ret = "result conversion failed"

\* The calls createTapInterface makes when all succeed, with the bridge
\* there and with the bridge missing.
ProvisionCalls ==
    { <<"LinkByName", "LinkAdd", "LinkSetMaster", "LinkByName", "LinkSetUp">>,
      <<"LinkByName", "LinkAdd", "AddrAdd", "LinkAdd", "LinkSetMaster",
        "LinkByName", "LinkSetUp">> }

\* C18: the allocation is invoked only after the bridge was ensured and the
\* tap created, bound to the bridge and brought up, in this order; when it
\* is about to be invoked the tap is up and bound to the bridge; an ADD that
\* fails at the bind step never invokes the allocator.
C18_FixedCollaboratorOrder ==
    \A p \in Procs :
        inv[p].verb = "cmdAdd"
        => /\ InCalls(inv[p], "ExecAdd")
                => SubSeq(inv[p].calls, 1, FirstCall(inv[p], "ExecAdd") - 1)
                      \in ProvisionCalls
           /\ inv[p].pc = "ExecAdd"
                => /\ inv[p].calls \in ProvisionCalls
                   /\ links[hostTapName].index = inv[p].tap
                   /\ links[hostTapName].up
                   /\ links[hostTapName].master = inv[p].br
                   /\ links[inv[p].conf.Bridge].kind = "bridge"
                   /\ links[inv[p].conf.Bridge].index = inv[p].br
           /\ inv[p].ret = "failed to link tap device to master"
                => /\ ~InCalls(inv[p], "ExecAdd")
                   /\ ~InCalls(inv[p], "ExecDel")
                   /\ inv[p].leases0 = leases

C18_Witness ==
    \E p \in Procs :
        /\ AddFailed(inv[p])
        /\ inv[p].ret = "failed to link tap device to master"
        /\ TapLeft(inv[p])
        /\ links[hostTapName].master = 0

\* The calls that delete, bind or activate a link or touch the allocator.
NoTapOrLeaseCall(rec) ==
    \A name \in {"DelLinkByName", "LinkSetMaster", "LinkSetUp", "ExecAdd", "ExecDel"} :
        ~InCalls(rec, name)

\* C19 (as claimed): of two interleaved ADDs at most one gets past tap
\* creation; the other fails with a link provision error and its failure
\* path neither deletes, unbinds or brings down the tap nor releases the
\* address of the first.
C19_AtMostOnePastTapCreation ==
    \A p, q \in Procs :
        (p # q /\ inv[p].verb = "cmdAdd" /\ inv[q].verb = "cmdAdd")
        => /\ ~(inv[p].tap # 0 /\ inv[q].tap # 0)
           /\ inv[q].ret = "failed to create tap link" => NoTapOrLeaseCall(inv[q])

\* While the tap named hostTapName exists, a creation of the tap fails and
\* changes no link.
TapCreationRejected ==
    \A q \in Procs :
        (inv[q].pc = "LinkAdd_tap" /\ links[hostTapName] # NoLink
            /\ inv'[q] # inv[q])
        => /\ inv'[q].ret = "failed to create tap link"
           /\ inv'[q].tap = 0
           /\ links' = links

\* C19 (amended): of two interleaved ADDs, one that tries to create the tap
\* while the other's tap exists fails with "failed to create tap link", and
\* its failure path makes no call that deletes, binds or activates a link
\* or reaches the allocator; both get past tap creation only if the tap of
\* the earlier one was deleted by its own rollback before the later one
\* created its tap.
C19_LoserLeavesWinnerAlone ==
    /\ [](\A p, q \in Procs :
            (p # q /\ inv[p].verb = "cmdAdd" /\ inv[q].verb = "cmdAdd")
            => /\ inv[q].ret = "failed to create tap link"
                    => inv[q].tap = 0 /\ NoTapOrLeaseCall(inv[q])
               /\ (inv[p].tap # 0 /\ inv[q].tap # 0 /\ inv[p].tap < inv[q].tap)
                    => /\ inv[p].delOutcome = "deleted"
                       /\ links[hostTapName].index # inv[p].tap)
    /\ [][TapCreationRejected]_vars

C19_Witness ==
    \E p, q \in Procs :
        /\ p # q
        /\ AddSucceeded(inv[p]) /\ TapLeft(inv[p]) /\ LeaseLeft(inv[p])
        /\ links[hostTapName].up /\ links[hostTapName].master = inv[p].br
        /\ AddFailed(inv[q]) /\ inv[q].ret = "failed to create tap link"
        /\ inv[p].links0[hostTapName] = NoLink
        /\ inv[q].links0[hostTapName] = NoLink

\* A bridge this plugin created: none of the links the host started with.
PluginBridge(l) ==
    /\ l.kind = "bridge"
    /\ \A ls \in InitLinks : \A n \in LinkNames : ls[n].index # l.index

\* The address the configuration gives the bridge, and the network of it,
\* which is what the code assigns.
ConfiguredAddrs ==
    {[ip |-> ConfiguredCIDR.ip, len |-> ConfiguredCIDR.len],
     ParseCIDR(ConfiguredCIDR).ipnet}

\* C20: whenever an ADD has returned, a bridge this plugin created carries
\* the configured CIDR address; no ADD succeeds on a bridge that an earlier
\* ADD created and left without address.
C20_PluginBridgeHasAddress ==
    \A p \in Procs :
        (inv[p].verb = "cmdAdd" /\ Returned(inv[p]))
        => /\ \A n \in LinkNames :
                 PluginBridge(links[n]) => links[n].addr \in ConfiguredAddrs
           /\ (inv[p].ret = Nil /\ PluginBridge(links[inv[p].conf.Bridge]))
                 => links[inv[p].conf.Bridge].addr # NoAddr

====
